---- MODULE Spec2Model ----
(***************************************************************************)
(* Model of the MQTT import plugin of src/index.js (the second module of   *)
(* the file, lines 641-1389: the revision with self-placeholder            *)
(* substitution, MMSI exclusion and persisted rule storage).               *)
(*                                                                         *)
(* JavaScript strings are modelled as sequences of one-character strings,  *)
(* so that startsWith, includes, replace, split and the regular            *)
(* expressions of the code are computed character by character.            *)
(***************************************************************************)
EXTENDS Integers, Sequences, FiniteSets, TLC

\* ------------------------------------------------------------------------
\* Words and literals of the source
\* ------------------------------------------------------------------------
Null == <<"null">>          \* JavaScript null / undefined (no string has a 4-letter character)
Slash == <<"/">>
W_vessels == <<"v", "e", "s", "s", "e", "l", "s">>
W_self == <<"s", "e", "l", "f">>
W_urn == <<"u", "r", "n">>
W_mrn == <<"m", "r", "n">>
W_imo == <<"i", "m", "o">>
W_mmsi == <<"m", "m", "s", "i">>
W_navigation == <<"n", "a", "v", "i", "g", "a", "t", "i", "o", "n">>
W_position == <<"p", "o", "s", "i", "t", "i", "o", "n">>
W_environment == <<"e", "n", "v", "i", "r", "o", "n", "m", "e", "n", "t">>
W_electrical == <<"e", "l", "e", "c", "t", "r", "i", "c", "a", "l">>
W_propulsion == <<"p", "r", "o", "p", "u", "l", "s", "i", "o", "n">>

\* 'vessels/self/' (index.js:834, 846, 863, 769)
VesselsSelfSlash == W_vessels \o Slash \o W_self \o Slash
\* 'urn_mrn_imo_mmsi_' and 'urn:mrn:imo:mmsi:' (index.js:784-785)
UrnMmsiUnderscore == W_urn \o <<"_">> \o W_mrn \o <<"_">> \o W_imo \o <<"_">> \o W_mmsi \o <<"_">>
UrnMmsiColon == W_urn \o <<":">> \o W_mrn \o <<":">> \o W_imo \o <<":">> \o W_mmsi \o <<":">>
Digits == {"0", "1", "2", "3", "4", "5", "6", "7", "8", "9"}

\* ------------------------------------------------------------------------
\* String primitives of JavaScript, on character sequences
\* ------------------------------------------------------------------------
\* a value is truthy unless it is null, undefined or the empty string
Truthy(s) == s # Null /\ s # <<>>

\* String.prototype.startsWith
StartsWith(s, p) == Len(p) <= Len(s) /\ SubSeq(s, 1, Len(p)) = p

\* String.prototype.indexOf, 1-based; 0 when p does not occur in s
IndexOf(s, p) ==
    LET hits == {i \in 1..(Len(s) - Len(p) + 1) : SubSeq(s, i, i + Len(p) - 1) = p}
    IN  IF hits = {} THEN 0 ELSE CHOOSE i \in hits : \A j \in hits : i <= j

\* String.prototype.includes
Includes(s, p) == IndexOf(s, p) # 0

\* String.prototype.replace(p, r) with a string pattern: the first occurrence only
ReplaceFirst(s, p, r) ==
    LET i == IndexOf(s, p)
    IN  IF i = 0 THEN s
        ELSE SubSeq(s, 1, i - 1) \o r \o SubSeq(s, i + Len(p), Len(s))

\* String.prototype.replace(/c/g, d) for one-character c and d
ReplaceAllChar(s, c, d) == [i \in 1..Len(s) |-> IF s[i] = c THEN d ELSE s[i]]

\* String.prototype.split(c) for a one-character separator
RECURSIVE Split(_, _)
Split(s, c) ==
    LET i == IndexOf(s, <<c>>)
    IN  IF i = 0 THEN <<s>>
        ELSE <<SubSeq(s, 1, i - 1)>> \o Split(SubSeq(s, i + 1, Len(s)), c)

\* Array.prototype.join(c)
RECURSIVE Join(_, _)
Join(parts, c) ==
    IF Len(parts) = 0 THEN <<>>
    ELSE IF Len(parts) = 1 THEN parts[1]
    ELSE parts[1] \o <<c>> \o Join(Tail(parts), c)

\* String.prototype.trim (blanks only)
RECURSIVE Trim(_)
Trim(s) ==
    IF Len(s) > 0 /\ s[1] = " " THEN Trim(Tail(s))
    ELSE IF Len(s) > 0 /\ s[Len(s)] = " " THEN Trim(SubSeq(s, 1, Len(s) - 1))
    ELSE s

\* ------------------------------------------------------------------------
\* Regular expressions built by the code: a sequence of items, each a
\* literal character or "one or more characters of a class"
\* ------------------------------------------------------------------------
Lit(c) == [kind |-> "lit", ch |-> c]
Plus(cls) == [kind |-> "plus", ch |-> cls]

InClass(c, cls) ==
    CASE cls = "notslash" -> c # "/"
      [] cls = "sep" -> c \in {"_", ":"}
      [] cls = "digit" -> c \in Digits

\* positions reachable after one item from the positions P (position = index of next character)
RegexStep(item, s, P) ==
    IF item.kind = "lit"
    THEN {p + 1 : p \in {q \in P : q <= Len(s) /\ s[q] = item.ch}}
    ELSE {e \in 2..(Len(s) + 1) :
            \E p \in P : p < e /\ \A k \in p..(e - 1) : InClass(s[k], item.ch)}

RECURSIVE RegexRun(_, _, _)
RegexRun(items, s, P) ==
    IF Len(items) = 0 \/ P = {} THEN P
    ELSE RegexRun(Tail(items), s, RegexStep(Head(items), s, P))

\* RegExp.prototype.test of an unanchored expression: a match may start anywhere
RegexTest(items, s) == RegexRun(items, s, 1..(Len(s) + 1)) # {}

\* new RegExp(pattern.replace(/\+/g, '[^/]+')) (index.js:850-852, 857-858)
PlusRegex(pattern) ==
    [i \in 1..Len(pattern) |-> IF pattern[i] = "+" THEN Plus("notslash") ELSE Lit(pattern[i])]

\* ------------------------------------------------------------------------
\* Identifier codec
\* ------------------------------------------------------------------------
urnToMqttFormat(urn) == IF ~Truthy(urn) THEN Null ELSE ReplaceAllChar(urn, ":", "_")

\* Variant of mqttFormatToUrn that rewrites the first underscore only
\* (replace('_', ':') without the g flag)
mqttFormatToUrnFirst(mqttFormat) ==
    IF ~Truthy(mqttFormat) THEN Null ELSE ReplaceFirst(mqttFormat, <<"_">>, <<":">>)

mqttFormatToUrn(mqttFormat) ==
    IF ~Truthy(mqttFormat) THEN Null ELSE ReplaceAllChar(mqttFormat, "_", ":")

\* /urn[_:]+mrn[_:]+imo[_:]+mmsi[_:]+([0-9]+)/
MMSIRegexHead ==
    <<Lit("u"), Lit("r"), Lit("n"), Plus("sep"),
      Lit("m"), Lit("r"), Lit("n"), Plus("sep"),
      Lit("i"), Lit("m"), Lit("o"), Plus("sep"),
      Lit("m"), Lit("m"), Lit("s"), Lit("i"), Plus("sep")>>

\* the longest run of digits of s that starts at position p
DigitRun(s, p) ==
    LET ends == {e \in p..(Len(s) + 1) : \A k \in p..(e - 1) : s[k] \in Digits}
        e == CHOOSE x \in ends : \A y \in ends : y <= x
    IN  SubSeq(s, p, e - 1)

\* urn.match(...)[1]: leftmost match, greedy separators, greedy digit group
extractMMSIFromUrn(urn) ==
    IF ~Truthy(urn) THEN Null
    ELSE LET starts == {i \in 1..Len(urn) :
                          \E p \in RegexRun(MMSIRegexHead, urn, {i}) :
                              p <= Len(urn) /\ urn[p] \in Digits}
         IN  IF starts = {} THEN Null
             ELSE LET i == CHOOSE x \in starts : \A y \in starts : x <= y
                      \* a digit can only follow the whole separator run
                      p == CHOOSE q \in RegexRun(MMSIRegexHead, urn, {i}) :
                               q <= Len(urn) /\ urn[q] \in Digits
                  IN  DigitRun(urn, p)

\* excludeMMSI.split(',').map(trim).filter(non-empty)
parseMMSIExclusionList(excludeMMSI) ==
    IF ~Truthy(excludeMMSI) THEN <<>>
    ELSE SelectSeq([i \in 1..Len(Split(excludeMMSI, ",")) |-> Trim(Split(excludeMMSI, ",")[i])],
                   LAMBDA m : Len(m) > 0)

SeqIncludes(list, x) == \E i \in 1..Len(list) : list[i] = x

isMMSIExcluded(topic, rule) ==
    LET exclusionList == parseMMSIExclusionList(rule.excludeMMSI)
        parts == Split(topic, "/")
    IN  IF Len(exclusionList) = 0 THEN FALSE
        ELSE IF Len(parts) < 2 \/ parts[1] # W_vessels THEN FALSE
        ELSE LET mmsi == extractMMSIFromUrn(parts[2])
             IN  IF ~Truthy(mmsi) THEN FALSE
                 ELSE SeqIncludes(exclusionList, mmsi)

\* ------------------------------------------------------------------------
\* Topic matching of handleMQTTMessage (index.js:818-872)
\* ------------------------------------------------------------------------
\* expectedTopic: the rule's pattern with the configured prefix (index.js:818-821)
PrefixedTopic(mqttTopic, topicPrefix) ==
    IF Truthy(topicPrefix) THEN topicPrefix \o Slash \o mqttTopic ELSE mqttTopic

\* s.replace('vessels/self/', `vessels/${id}/`)
SubstituteSelf(s, id) == ReplaceFirst(s, VesselsSelfSlash, W_vessels \o Slash \o id \o Slash)

\* pattern with '#' (index.js:830-843)
MatchHash(expectedTopic, topic, self) ==
    LET prefix == ReplaceFirst(expectedTopic, <<"#">>, <<>>)
    IN  IF Includes(prefix, VesselsSelfSlash) /\ Truthy(self)
        THEN LET urnPrefix == SubstituteSelf(prefix, self)
                 underscoreUrn == urnToMqttFormat(self)
             IN  \/ StartsWith(topic, prefix)
                 \/ StartsWith(topic, urnPrefix)
                 \/ (Truthy(underscoreUrn) /\ StartsWith(topic, SubstituteSelf(prefix, underscoreUrn)))
        ELSE \/ StartsWith(topic, prefix)
             \/ StartsWith(topic, ReplaceAllChar(prefix, "_", ":"))

\* pattern with '+' and no '#' (index.js:844-860)
MatchPlus(expectedTopic, topic, self) ==
    IF Includes(expectedTopic, VesselsSelfSlash) /\ Truthy(self)
    THEN LET urnPattern == SubstituteSelf(expectedTopic, self)
             underscoreUrn == urnToMqttFormat(self)
         IN  \/ RegexTest(PlusRegex(expectedTopic), topic)
             \/ RegexTest(PlusRegex(urnPattern), topic)
             \/ (Truthy(underscoreUrn)
                   /\ RegexTest(PlusRegex(SubstituteSelf(expectedTopic, underscoreUrn)), topic))
    ELSE \/ RegexTest(PlusRegex(expectedTopic), topic)
         \/ RegexTest(PlusRegex(ReplaceAllChar(expectedTopic, "_", ":")), topic)

\* pattern without wildcard (index.js:861-872)
MatchExact(expectedTopic, topic, self) ==
    IF Includes(expectedTopic, VesselsSelfSlash) /\ Truthy(self)
    THEN LET urnTopic == SubstituteSelf(expectedTopic, self)
             underscoreUrn == urnToMqttFormat(self)
         IN  \/ topic = expectedTopic
             \/ topic = urnTopic
             \/ (Truthy(underscoreUrn) /\ topic = SubstituteSelf(expectedTopic, underscoreUrn))
    ELSE \/ topic = expectedTopic
         \/ topic = ReplaceAllChar(expectedTopic, "_", ":")

\* the value of `matches` for one rule (index.js:827-872)
TopicMatches(expectedTopic, topic, self) ==
    IF Includes(expectedTopic, <<"#">>) THEN MatchHash(expectedTopic, topic, self)
    ELSE IF Includes(expectedTopic, <<"+">>) THEN MatchPlus(expectedTopic, topic, self)
    ELSE MatchExact(expectedTopic, topic, self)

\* ------------------------------------------------------------------------
\* The rule scan of handleMQTTMessage (index.js:814-891)
\* Result: [kind |-> "rule", idx |-> i]   rule i is selected (break)
\*         [kind |-> "none", idx |-> 0]   the loop ends without a rule
\*         [kind |-> "return", idx |-> i] the handler returns inside the loop at rule i
\*         [kind |-> "throw", idx |-> i]  a TypeError is thrown inside the loop at rule i:
\*                                        a rule without mqttTopic (Null), no topic
\*                                        prefix, `expectedTopic.includes` (index.js:830)
\* ------------------------------------------------------------------------
RECURSIVE ScanRules(_, _, _, _, _)
ScanRules(rules, i, topic, topicPrefix, self) ==
    IF i > Len(rules) THEN [kind |-> "none", idx |-> 0]
    ELSE LET r == rules[i]
             expectedTopic == PrefixedTopic(r.mqttTopic, topicPrefix)
             matches == TopicMatches(expectedTopic, topic, self)
         IN  IF ~r.enabled THEN [kind |-> "return", idx |-> i]          \* index.js:816
             ELSE IF r.mqttTopic = Null /\ ~Truthy(topicPrefix)
                  THEN [kind |-> "throw", idx |-> i]
             ELSE IF matches /\ isMMSIExcluded(topic, r)
                  THEN ScanRules(rules, i + 1, topic, topicPrefix, self)  \* continue
             ELSE IF matches THEN [kind |-> "rule", idx |-> i]           \* break
             ELSE ScanRules(rules, i + 1, topic, topicPrefix, self)

\* Variant of the scan in which a later matching rule overrides an earlier one
\* (the loop without its break)
FindRuleLastMatch(rules, topic, topicPrefix, self) ==
    LET hits == {i \in 1..Len(rules) :
                   /\ \A j \in 1..i : rules[j].enabled
                   /\ TopicMatches(PrefixedTopic(rules[i].mqttTopic, topicPrefix), topic, self)
                   /\ ~isMMSIExcluded(topic, rules[i])}
    IN  IF hits # {} THEN [kind |-> "rule", idx |-> CHOOSE i \in hits : \A j \in hits : j <= i]
        ELSE ScanRules(rules, 1, topic, topicPrefix, self)

\* Variant of the scan in which an exclusion hit ends the search (break for continue)
RECURSIVE ScanRulesStopAtExclusion(_, _, _, _, _)
ScanRulesStopAtExclusion(rules, i, topic, topicPrefix, self) ==
    IF i > Len(rules) THEN [kind |-> "none", idx |-> 0]
    ELSE IF ~rules[i].enabled THEN [kind |-> "return", idx |-> i]
    ELSE IF TopicMatches(PrefixedTopic(rules[i].mqttTopic, topicPrefix), topic, self)
         THEN IF isMMSIExcluded(topic, rules[i]) THEN [kind |-> "none", idx |-> 0]
              ELSE [kind |-> "rule", idx |-> i]
    ELSE ScanRulesStopAtExclusion(rules, i + 1, topic, topicPrefix, self)

FindRuleStopAtExclusion(rules, topic, topicPrefix, self) ==
    ScanRulesStopAtExclusion(rules, 1, topic, topicPrefix, self)

FindRule(rules, topic, topicPrefix, self) == ScanRules(rules, 1, topic, topicPrefix, self)

\* ------------------------------------------------------------------------
\* JSON values and the payload texts of the model
\* ------------------------------------------------------------------------
NoUpdates == [kind |-> "absent", items |-> <<>>]
JArray(items) == [kind |-> "array", items |-> items]
JV(t, n, s, context, updates) ==
    [t |-> t, n |-> n, s |-> s, context |-> context, updates |-> updates]
JNumber(n) == JV("number", n, <<>>, Null, NoUpdates)
JString(s) == JV("string", 0, s, Null, NoUpdates)
JObject(context, updates) == JV("object", 0, <<>>, context, updates)

\* {"context":"c","updates":[{"values":[{"path":"p","value":1}]}]}
TextDelta ==
    <<"{", "\"", "c", "o", "n", "t", "e", "x", "t", "\"", ":", "\"", "c", "\"", ",", "\"", "u", "p", "d", "a", "t", "e", "s", "\"", ":", "[", "{", "\"", "v", "a", "l", "u", "e", "s", "\"", ":", "[", "{", "\"", "p", "a", "t", "h", "\"", ":", "\"", "p", "\"", ",", "\"", "v", "a", "l", "u", "e", "\"", ":", "1", "}", "]", "}", "]", "}">>
ValueDelta ==
    JObject(<<"c">>, JArray(<<[values |-> <<[path |-> <<"p">>, value |-> JNumber(1)]>>]>>))

\* further payload texts: null, true, "s", [1], {}, {"context":"c"},
\* {"context":"c","updates":1}, {"context":"c","updates":[]}, and the delta
\* document with an empty context and without a context
TextNull == <<"n", "u", "l", "l">>
TextTrue == <<"t", "r", "u", "e">>
TextString == <<"\"", "s", "\"">>
TextArray == <<"[", "1", "]">>
TextEmptyObject == <<"{", "}">>
TextContextOnly ==
    <<"{", "\"", "c", "o", "n", "t", "e", "x", "t", "\"", ":", "\"", "c", "\"", "}">>
TextUpdatesNumber ==
    <<"{", "\"", "c", "o", "n", "t", "e", "x", "t", "\"", ":", "\"", "c", "\"", ",", "\"", "u", "p", "d", "a", "t", "e", "s", "\"", ":", "1", "}">>
TextUpdatesEmpty ==
    <<"{", "\"", "c", "o", "n", "t", "e", "x", "t", "\"", ":", "\"", "c", "\"", ",", "\"", "u", "p", "d", "a", "t", "e", "s", "\"", ":", "[", "]", "}">>
TextContextEmpty ==
    <<"{", "\"", "c", "o", "n", "t", "e", "x", "t", "\"", ":", "\"", "\"", ",", "\"", "u", "p", "d", "a", "t", "e", "s", "\"", ":", "[", "{", "\"", "v", "a", "l", "u", "e", "s", "\"", ":", "[", "{", "\"", "p", "a", "t", "h", "\"", ":", "\"", "p", "\"", ",", "\"", "v", "a", "l", "u", "e", "\"", ":", "1", "}", "]", "}", "]", "}">>
TextUpdatesOnly ==
    <<"{", "\"", "u", "p", "d", "a", "t", "e", "s", "\"", ":", "[", "{", "\"", "v", "a", "l", "u", "e", "s", "\"", ":", "[", "{", "\"", "p", "a", "t", "h", "\"", ":", "\"", "p", "\"", ",", "\"", "v", "a", "l", "u", "e", "\"", ":", "1", "}", "]", "}", "]", "}">>

JNull == JV("null", 0, <<>>, Null, NoUpdates)
JTrue == JV("boolean", 1, <<>>, Null, NoUpdates)
JArrayOfOne == JV("array", 1, <<>>, Null, NoUpdates)                \* [1]
NotAnArray == [kind |-> "other", items |-> <<>>]                    \* updates: 1
DeltaUpdates == JArray(<<[values |-> <<[path |-> <<"p">>, value |-> JNumber(1)]>>]>>)

\* the JSON documents of the model and the values JSON.parse returns for them
JSONDocuments ==
    {[text |-> TextDelta, value |-> ValueDelta],
     [text |-> TextNull, value |-> JNull],
     [text |-> TextTrue, value |-> JTrue],
     [text |-> TextString, value |-> JString(<<"s">>)],
     [text |-> TextArray, value |-> JArrayOfOne],
     [text |-> TextEmptyObject, value |-> JObject(Null, NoUpdates)],
     [text |-> TextContextOnly, value |-> JObject(<<"c">>, NoUpdates)],
     [text |-> TextUpdatesNumber, value |-> JObject(<<"c">>, NotAnArray)],
     [text |-> TextUpdatesEmpty, value |-> JObject(<<"c">>, JArray(<<>>))],
     [text |-> TextContextEmpty, value |-> JObject(<<>>, DeltaUpdates)],
     [text |-> TextUpdatesOnly, value |-> JObject(Null, DeltaUpdates)]}

IsDigits(s) == Len(s) > 0 /\ \A i \in 1..Len(s) : s[i] \in Digits
DigitValue(c) == CHOOSE d \in 0..9 : ToString(d) = c
RECURSIVE DigitsToNat(_)
DigitsToNat(s) ==
    IF Len(s) = 0 THEN 0 ELSE 10 * DigitsToNat(SubSeq(s, 1, Len(s) - 1)) + DigitValue(s[Len(s)])

\* JSON.parse on the payload texts of the model: an unsigned integer literal
\* or one of the documents above; any other text of the model is not JSON
JSONParse(text) ==
    IF IsDigits(text) /\ (Len(text) = 1 \/ text[1] # "0")
    THEN [ok |-> TRUE, value |-> JNumber(DigitsToNat(text))]
    ELSE IF \E d \in JSONDocuments : d.text = text
         THEN [ok |-> TRUE, value |-> (CHOOSE d \in JSONDocuments : d.text = text).value]
    ELSE [ok |-> FALSE, value |-> JString(<<>>)]

\* isNaN(messageStr) ? messageStr : Number(messageStr) (index.js:941)
BareScalar(messageStr) ==
    IF Len(messageStr) = 0 \/ IsDigits(messageStr)
    THEN JNumber(DigitsToNat(messageStr))
    ELSE JString(messageStr)

\* ------------------------------------------------------------------------
\* Context and path derivation (index.js:1054-1105)
\* ------------------------------------------------------------------------
VesselsDot == W_vessels \o <<".">>
VesselsDotSelf == VesselsDot \o W_self

CleanTopic(topic, topicPrefix) ==
    IF Truthy(topicPrefix) THEN ReplaceFirst(topic, topicPrefix \o Slash, <<>>) ELSE topic

\* Variant of extractContextFromTopic that knows the own vessel in canonical form only
extractContextCanonicalSelf(topic, topicPrefix, self) ==
    LET parts == Split(CleanTopic(topic, topicPrefix), "/")
    IN  IF parts[1] = W_vessels /\ Len(parts) > 2
        THEN IF Truthy(self) /\ self = parts[2] THEN VesselsDotSelf
             ELSE IF StartsWith(parts[2], W_urn \o <<"_">>)
                  THEN VesselsDot \o mqttFormatToUrn(parts[2])
             ELSE VesselsDot \o parts[2]
        ELSE VesselsDotSelf

extractContextFromTopic(topic, topicPrefix, self) ==
    LET parts == Split(CleanTopic(topic, topicPrefix), "/")
    IN  IF parts[1] = W_vessels /\ Len(parts) > 2
        THEN LET vesselId == parts[2]
             IN  IF Truthy(self) /\ (urnToMqttFormat(self) = vesselId \/ self = vesselId)
                 THEN VesselsDotSelf
                 ELSE IF StartsWith(vesselId, W_urn \o <<"_">>)
                      THEN VesselsDot \o mqttFormatToUrn(vesselId)
                 ELSE VesselsDot \o vesselId
        ELSE VesselsDotSelf

extractPathFromTopic(topic, topicPrefix) ==
    LET cleanTopic == CleanTopic(topic, topicPrefix)
        parts == Split(cleanTopic, "/")
    IN  IF parts[1] = W_vessels /\ Len(parts) > 2
        THEN Join(SubSeq(parts, 3, Len(parts)), ".")
        ELSE ReplaceAllChar(cleanTopic, "/", ".")

\* ------------------------------------------------------------------------
\* Payload interpretation (index.js:932-1000); the result is
\* [ok |-> FALSE] for null, else the delta handed to sendToSignalK
\* ------------------------------------------------------------------------
NoData == [ok |-> FALSE, context |-> Null, updates |-> NoUpdates]
Data(context, updates) == [ok |-> TRUE, context |-> context, updates |-> updates]

\* rule.x || fallback
OrElse(a, b) == IF Truthy(a) THEN a ELSE b

\* the single-value delta built by both parsers (index.js:948-961, 982-995)
WrapValue(context, path, rule, value) ==
    Data(context,
         JArray(<<[source |-> [label |-> OrElse(rule.sourceLabel, <<>>), type |-> "mqtt"],
                   timestamp |-> "now",
                   values |-> <<[path |-> path, value |-> value]>>]>>))

\* Variant of parseValueOnlyMessage that gives up on a text that is not JSON
parseValueStrict(messageStr, rule, topic, topicPrefix, self) ==
    IF JSONParse(messageStr).ok
    THEN WrapValue(OrElse(rule.signalKContext, extractContextFromTopic(topic, topicPrefix, self)),
                   OrElse(rule.signalKPath, extractPathFromTopic(topic, topicPrefix)),
                   rule, JSONParse(messageStr).value)
    ELSE NoData

parseValueOnlyMessage(messageStr, rule, topic, topicPrefix, self) ==
    LET parsed == JSONParse(messageStr)
        value == IF parsed.ok THEN parsed.value ELSE BareScalar(messageStr)
        context == OrElse(rule.signalKContext, extractContextFromTopic(topic, topicPrefix, self))
        path == OrElse(rule.signalKPath, extractPathFromTopic(topic, topicPrefix))
    IN  WrapValue(context, path, rule, value)

\* a JavaScript value is truthy: numbers other than 0, non-empty strings, objects, arrays
UpdatesTruthy(u) == u.kind \in {"array", "other"}

\* Variant of parseFullSignalKMessage that falls back to the raw text as value-only does
parseFullLenient(messageStr, rule, topic, topicPrefix, self) ==
    parseValueOnlyMessage(messageStr, rule, topic, topicPrefix, self)

parseFullSignalKMessage(messageStr, rule, topic, topicPrefix, self) ==
    LET res == JSONParse(messageStr)
        parsed == res.value
    IN  IF ~res.ok THEN NoData                       \* JSON.parse throws (index.js:996-999)
        ELSE IF parsed.t = "null" THEN NoData        \* parsed.context throws on null
        ELSE IF Truthy(parsed.context) /\ UpdatesTruthy(parsed.updates)
             THEN Data(parsed.context, parsed.updates)
        ELSE LET context == OrElse(rule.signalKContext,
                               OrElse(parsed.context,
                                      extractContextFromTopic(topic, topicPrefix, self)))
                 path == OrElse(rule.signalKPath, extractPathFromTopic(topic, topicPrefix))
             IN  WrapValue(context, path, rule, parsed)

PluginId == "zennora-signalk-mqtt-import"      \* plugin.id (index.js:653)

\* Variant of sendToSignalK that hands a valid delta to the sink twice
sendToSignalKTwice(signalKData) ==
    IF ~Truthy(signalKData.context) \/ signalKData.updates.kind # "array"
    THEN <<>>
    ELSE <<[id |-> PluginId, context |-> signalKData.context, updates |-> signalKData.updates],
           [id |-> PluginId, context |-> signalKData.context, updates |-> signalKData.updates]>>

\* sendToSignalK (index.js:1108-1134): the calls app.handleMessage(id, delta) made.
\* rule.transformValue is never a function: rules are JSON data.
sendToSignalK(signalKData) ==
    IF ~Truthy(signalKData.context) \/ ~UpdatesTruthy(signalKData.updates)
         \/ signalKData.updates.kind # "array"
    THEN <<>>
    ELSE <<[id |-> PluginId, context |-> signalKData.context, updates |-> signalKData.updates]>>

\* ------------------------------------------------------------------------
\* Deduplication cache (index.js:895-909): a Map in insertion order,
\* modelled as the sequence of its entries [key, time]
\* ------------------------------------------------------------------------
CacheHighWater == 1000       \* index.js:904
EvictBatch == 500            \* index.js:906

\* `${topic}:${messageStr}` (index.js:897)
MessageKey(topic, messageStr) == topic \o <<":">> \o messageStr

\* Map.prototype.has
CacheHas(cache, key) == \E i \in 1..Len(cache) : cache[i].key = key

\* Variant of set that stores nothing
CacheSetForgets(cache, key, time) == cache

\* Map.prototype.set: a new key is appended, a present key keeps its place
CacheSet(cache, key, time) ==
    IF CacheHas(cache, key)
    THEN [i \in 1..Len(cache) |-> IF cache[i].key = key THEN [key |-> key, time |-> time] ELSE cache[i]]
    ELSE Append(cache, [key |-> key, time |-> time])

\* Variant of the clean-up that never evicts
CacheCleanupNever(cache) == cache

\* Variant of the clean-up that already evicts at the high-water mark (>= for >)
CacheCleanupAtMark(cache) ==
    IF Len(cache) >= CacheHighWater THEN SubSeq(cache, EvictBatch + 1, Len(cache)) ELSE cache

\* index.js:904-908: delete the keys of entries.slice(0, 500) once size > 1000
CacheCleanup(cache) ==
    IF Len(cache) > CacheHighWater
    THEN SubSeq(cache, (IF Len(cache) < EvictBatch THEN Len(cache) ELSE EvictBatch) + 1, Len(cache))
    ELSE cache

\* ------------------------------------------------------------------------
\* handleMQTTMessage (index.js:806-929) as a function of the state it reads:
\* the selected rule, what became of the message, the cache afterwards, the
\* largest size the cache had meanwhile and the deltas passed to the sink
\* ------------------------------------------------------------------------
Handled(outcome, rule, cache, peak, sent) ==
    [outcome |-> outcome, rule |-> rule, cache |-> cache, peak |-> peak, sent |-> sent]

Interpret(messageStr, rule, topic, topicPrefix, self) ==
    IF rule.payloadFormat = "value-only"
    THEN parseValueOnlyMessage(messageStr, rule, topic, topicPrefix, self)
    ELSE parseFullSignalKMessage(messageStr, rule, topic, topicPrefix, self)

\* index.js:911-924: interpret the payload and hand the delta to the sink
Deliver(idx, cache, peak, signalKData) ==
    IF ~signalKData.ok THEN Handled("unparsed", idx, cache, peak, <<>>)
    ELSE IF sendToSignalK(signalKData) = <<>> THEN Handled("invalid", idx, cache, peak, <<>>)
    ELSE Handled("delivered", idx, cache, peak, sendToSignalK(signalKData))

\* index.js:901-908: record the key, then clean up
Remember(idx, inserted, signalKData) ==
    Deliver(idx, CacheCleanup(inserted), Len(inserted), signalKData)

\* Variant of HandleWithRule that consults and fills the dedup cache whatever
\* the rule's ignoreDuplicates says
HandleWithRuleAlwaysDedup(idx, rule, cache, now, topic, messageStr, topicPrefix, self) ==
    IF CacheHas(cache, MessageKey(topic, messageStr))
    THEN Handled("duplicate", idx, cache, Len(cache), <<>>)
    ELSE Remember(idx, CacheSet(cache, MessageKey(topic, messageStr), now),
                  Interpret(messageStr, rule, topic, topicPrefix, self))

\* Variant of HandleWithRule that moves the entry of a suppressed duplicate
\* to the end of the cache with the current time (delete, then set)
HandleWithRuleRefreshes(idx, rule, cache, now, topic, messageStr, topicPrefix, self) ==
    IF rule.ignoreDuplicates
    THEN IF CacheHas(cache, MessageKey(topic, messageStr))
         THEN Handled("duplicate", idx,
                      Append(SelectSeq(cache, LAMBDA e : e.key # MessageKey(topic, messageStr)),
                             [key |-> MessageKey(topic, messageStr), time |-> now]),
                      Len(cache), <<>>)
         ELSE Remember(idx, CacheSet(cache, MessageKey(topic, messageStr), now),
                       Interpret(messageStr, rule, topic, topicPrefix, self))
    ELSE Deliver(idx, cache, Len(cache), Interpret(messageStr, rule, topic, topicPrefix, self))

\* index.js:893-924: the message once rule number idx is selected
HandleWithRule(idx, rule, cache, now, topic, messageStr, topicPrefix, self) ==
    IF rule.ignoreDuplicates
    THEN IF CacheHas(cache, MessageKey(topic, messageStr))
         THEN Handled("duplicate", idx, cache, Len(cache), <<>>)
         ELSE Remember(idx, CacheSet(cache, MessageKey(topic, messageStr), now),
                       Interpret(messageStr, rule, topic, topicPrefix, self))
    ELSE Deliver(idx, cache, Len(cache), Interpret(messageStr, rule, topic, topicPrefix, self))

\* Variant of HandleFound that remembers the message no rule took in the
\* dedup cache
HandleFoundRemembersUnmatched(found, rules, cache, now, topic, messageStr, topicPrefix, self) ==
    IF found.kind = "return" THEN Handled("aborted", 0, cache, Len(cache), <<>>)
    ELSE IF found.kind = "throw" THEN Handled("error", 0, cache, Len(cache), <<>>)
    ELSE IF found.kind = "none"
         THEN Handled("nomatch", 0, CacheSet(cache, MessageKey(topic, messageStr), now),
                      Len(cache) + 1, <<>>)
    ELSE HandleWithRule(found.idx, rules[found.idx], cache, now, topic, messageStr,
                        topicPrefix, self)

\* index.js:888-891 and what follows the loop
HandleFound(found, rules, cache, now, topic, messageStr, topicPrefix, self) ==
    IF found.kind = "return" THEN Handled("aborted", 0, cache, Len(cache), <<>>)
    ELSE IF found.kind = "throw"                         \* caught at index.js:926-928
         THEN Handled("error", 0, cache, Len(cache), <<>>)
    ELSE IF found.kind = "none" THEN Handled("nomatch", 0, cache, Len(cache), <<>>)
    ELSE HandleWithRule(found.idx, rules[found.idx], cache, now, topic, messageStr,
                        topicPrefix, self)

handleMQTTMessage(rules, cache, now, topic, messageStr, topicPrefix, self) ==
    HandleFound(FindRule(rules, topic, topicPrefix, self), rules, cache, now, topic,
                messageStr, topicPrefix, self)

\* ------------------------------------------------------------------------
\* Subscription topics (index.js:753-803)
\* ------------------------------------------------------------------------
\* topic.replace(/urn_mrn_imo_mmsi_/g, 'urn:mrn:imo:mmsi:')
RECURSIVE CanonicalizeMmsi(_)
CanonicalizeMmsi(s) ==
    LET i == IndexOf(s, UrnMmsiUnderscore)
    IN  IF i = 0 THEN s
        ELSE SubSeq(s, 1, i - 1) \o UrnMmsiColon
               \o CanonicalizeMmsi(SubSeq(s, i + Len(UrnMmsiUnderscore), Len(s)))

\* Variant of RuleSubscriptions that substitutes the placeholder without asking
\* whether the self identifier is resolved (`vessels/${null}/`)
RuleSubscriptionsUnguarded(rule, topicPrefix, self) ==
    IF Includes(PrefixedTopic(rule.mqttTopic, topicPrefix), VesselsSelfSlash)
    THEN {SubstituteSelf(PrefixedTopic(rule.mqttTopic, topicPrefix),
                         IF Truthy(self) THEN self ELSE <<"n", "u", "l", "l">>)}
    ELSE {PrefixedTopic(rule.mqttTopic, topicPrefix)}

RuleSubscriptions(rule, topicPrefix, self) ==
    LET topic == PrefixedTopic(rule.mqttTopic, topicPrefix)
    IN  IF Includes(topic, VesselsSelfSlash) /\ Truthy(self)
        THEN {SubstituteSelf(topic, self)}
               \cup (IF Includes(self, <<":">>)
                     THEN {SubstituteSelf(topic, urnToMqttFormat(self))} ELSE {})
        ELSE {topic}
               \cup (IF Includes(topic, UrnMmsiUnderscore) THEN {CanonicalizeMmsi(topic)} ELSE {})

subscribeToMQTTTopics(rules, topicPrefix, self) ==
    UNION {RuleSubscriptions(rules[i], topicPrefix, self) : i \in {j \in 1..Len(rules) : rules[j].enabled}}

\* ------------------------------------------------------------------------
\* Import rules
\* ------------------------------------------------------------------------
Rule(id, mqttTopic, enabled, payloadFormat, ignoreDuplicates, excludeMMSI) ==
    [id |-> id, mqttTopic |-> mqttTopic, signalKContext |-> <<>>, signalKPath |-> <<>>,
     sourceLabel |-> <<>>, enabled |-> enabled, payloadFormat |-> payloadFormat,
     ignoreDuplicates |-> ignoreDuplicates, excludeMMSI |-> excludeMMSI]

\* 'vessels/urn_mrn_imo_mmsi_+/' followed by rest
AllVessels(rest) == W_vessels \o Slash \o UrnMmsiUnderscore \o <<"+">> \o Slash \o rest

getDefaultImportRules ==
    << Rule("vessels-all-data", AllVessels(<<"#">>), TRUE, "full", TRUE, <<>>),
       Rule("vessels-navigation", AllVessels(W_navigation \o <<"/", "#">>), TRUE, "full", TRUE, <<>>),
       Rule("vessels-environment", AllVessels(W_environment \o <<"/", "#">>), TRUE, "full", TRUE, <<>>),
       Rule("vessels-electrical", AllVessels(W_electrical \o <<"/", "#">>), FALSE, "full", TRUE, Null),
       Rule("vessels-propulsion", AllVessels(W_propulsion \o <<"/", "#">>), FALSE, "full", TRUE, Null) >>

\* ------------------------------------------------------------------------
\* State
\* ------------------------------------------------------------------------
VARIABLES
    importRules,            \* the rule list (index.js:648)
    lastReceivedMessages,   \* the dedup Map, entries in insertion order (index.js:649)
    selfVesselUrn,          \* Null or the self identifier (index.js:650)
    mqttClient,             \* "null", "offline" (client created, not connected) or "connected"
    config,                 \* plugin.config: [topicPrefix, enabled]
    rulesFile,              \* mqtt-import-rules.json: [exists, rules]
    subscriptions,          \* topic filters the client has subscribed
    response,               \* HTTP status of the last POST /api/rules, 0 before any
    clock,                  \* number of Date.now() readings taken by the dedup cache
    last                    \* <<>> or <<observation of the handleMQTTMessage call just made>>

vars == <<importRules, lastReceivedMessages, selfVesselUrn, mqttClient, config,
          rulesFile, subscriptions, response, clock, last>>

NoFile == [exists |-> FALSE, rules |-> <<>>]
File(rules) == [exists |-> TRUE, rules |-> rules]

\* the state after module.exports(app) (index.js:645-651)
Constructed ==
    /\ importRules = <<>>
    /\ lastReceivedMessages = <<>>
    /\ selfVesselUrn = Null
    /\ mqttClient = "null"
    /\ config = [topicPrefix |-> <<>>, enabled |-> TRUE]
    /\ rulesFile = NoFile
    /\ subscriptions = {}
    /\ response = 0
    /\ clock = 0
    /\ last = <<>>

\* ------------------------------------------------------------------------
\* Operations
\* ------------------------------------------------------------------------
\* saveRulesToStorage (index.js:1366-1376): writeOk is whether fs.writeFileSync succeeds
saveRulesToStorage(file, rules, writeOk) == IF writeOk THEN File(rules) ELSE file

\* loadRulesFromStorage (index.js:1353-1364)
loadRulesFromStorage(file) == IF file.exists THEN file.rules ELSE getDefaultImportRules

\* plugin.start (index.js:657-694). options: [topicPrefix, enabled, legacy, importRules];
\* legacy says whether options.importRules is an array. selfId is what the host reports.
Start(options, selfId, writeOk) ==
    /\ mqttClient = "null"
    /\ LET enabled == options.enabled \/ TRUE                      \* options?.enabled || true
           file == IF options.legacy
                   THEN saveRulesToStorage(rulesFile, options.importRules, writeOk)
                   ELSE rulesFile
       IN  /\ config' = [topicPrefix |-> options.topicPrefix, enabled |-> enabled]
           /\ rulesFile' = file
           /\ importRules' = IF options.legacy THEN options.importRules
                             ELSE loadRulesFromStorage(file)
           /\ selfVesselUrn' = selfId
           /\ mqttClient' = IF enabled THEN "offline" ELSE "null"
    /\ subscriptions' = {}
    /\ last' = <<>>
    /\ UNCHANGED <<lastReceivedMessages, response, clock>>

\* plugin.stop (index.js:696-707)
Stop ==
    /\ mqttClient # "null"
    /\ mqttClient' = "null"
    /\ lastReceivedMessages' = <<>>
    /\ subscriptions' = {}
    /\ last' = <<>>
    /\ UNCHANGED <<importRules, selfVesselUrn, config, rulesFile, response, clock>>

\* Variant of Connect whose handler subscribes nothing
ConnectWithoutSubscribe ==
    /\ mqttClient = "offline"
    /\ mqttClient' = "connected"
    /\ last' = <<>>
    /\ UNCHANGED <<importRules, lastReceivedMessages, selfVesselUrn, config, rulesFile,
                   subscriptions, response, clock>>

\* the client's 'connect' event (index.js:726-729)
Connect ==
    /\ mqttClient = "offline"
    /\ mqttClient' = "connected"
    /\ subscriptions' = subscriptions
                          \cup subscribeToMQTTTopics(importRules, config.topicPrefix, selfVesselUrn)
    /\ last' = <<>>
    /\ UNCHANGED <<importRules, lastReceivedMessages, selfVesselUrn, config, rulesFile,
                   response, clock>>

\* the client's 'close' event (index.js:735-737)
Close ==
    /\ mqttClient = "connected"
    /\ mqttClient' = "offline"
    /\ last' = <<>>
    /\ UNCHANGED <<importRules, lastReceivedMessages, selfVesselUrn, config, rulesFile,
                   subscriptions, response, clock>>

\* the state change of one handleMQTTMessage call whose result is h
Receive(topic, messageStr, h) ==
    /\ lastReceivedMessages' = h.cache
    /\ clock' = IF h.peak > Len(lastReceivedMessages) THEN clock + 1 ELSE clock
    /\ last' = <<[topic |-> topic, payload |-> messageStr, rule |-> h.rule,
                  outcome |-> h.outcome, sent |-> h.sent,
                  before |-> lastReceivedMessages, peak |-> h.peak]>>
    /\ UNCHANGED <<importRules, selfVesselUrn, mqttClient, config, rulesFile,
                   subscriptions, response>>

\* Variant of Message whose scan starts on the list of the rules file and
\* continues on the list in memory
MessageTornScan(topic, messageStr) ==
    /\ mqttClient = "connected"
    /\ Receive(topic, messageStr,
               handleMQTTMessage(IF rulesFile.exists /\ rulesFile.rules # <<>> /\ importRules # <<>>
                                 THEN <<rulesFile.rules[1]>> \o Tail(importRules)
                                 ELSE importRules,
                                 lastReceivedMessages, clock + 1, topic,
                                 messageStr, config.topicPrefix, selfVesselUrn))

\* the client's 'message' event (index.js:743-745)
Message(topic, messageStr) ==
    /\ mqttClient = "connected"
    /\ Receive(topic, messageStr,
               handleMQTTMessage(importRules, lastReceivedMessages, clock + 1, topic,
                                 messageStr, config.topicPrefix, selfVesselUrn))

\* Variant of SinkThrows without the handlers' catch clauses: the exception
\* of the sink leaves handleMQTTMessage
SinkThrowsUncaught(h) ==
    IF h.outcome = "delivered" THEN [h EXCEPT !.outcome = "uncaught"] ELSE h

\* the result h of a handleMQTTMessage call when app.handleMessage throws
\* (index.js:1128): the call was made, the exception is caught and logged
\* (index.js:1131-1133) and the handler returns
SinkThrows(h) ==
    IF h.outcome = "delivered" THEN [h EXCEPT !.outcome = "sinkerror"] ELSE h

\* the client's 'message' event with a sink that throws when it is called
MessageSinkThrows(topic, messageStr) ==
    /\ mqttClient = "connected"
    /\ Receive(topic, messageStr,
               SinkThrows(handleMQTTMessage(importRules, lastReceivedMessages, clock + 1,
                                            topic, messageStr, config.topicPrefix,
                                            selfVesselUrn)))

\* updateMQTTSubscriptions (index.js:1201-1209): unsubscribe('#') removes the
\* filter '#' itself, then the topics of the rules are subscribed
updateMQTTSubscriptions(subs, client, rules, topicPrefix, self) ==
    IF client = "connected"
    THEN (subs \ {<<"#">>}) \cup subscribeToMQTTTopics(rules, topicPrefix, self)
    ELSE subs

\* Variant of PostRules that empties the dedup cache with the rule list
PostRulesClearsCache(newRules, writeOk) ==
    /\ importRules' = newRules
    /\ rulesFile' = saveRulesToStorage(rulesFile, newRules, writeOk)
    /\ subscriptions' = IF writeOk
                        THEN updateMQTTSubscriptions(subscriptions, mqttClient, newRules,
                                                     config.topicPrefix, selfVesselUrn)
                        ELSE subscriptions
    /\ response' = IF writeOk THEN 200 ELSE 500
    /\ lastReceivedMessages' = <<>>
    /\ last' = <<>>
    /\ UNCHANGED <<selfVesselUrn, mqttClient, config, clock>>

\* Variant of PostRules that keeps the old list in memory when the save fails
PostRulesKeepOnFailure(newRules, writeOk) ==
    /\ importRules' = IF writeOk THEN newRules ELSE importRules
    /\ rulesFile' = saveRulesToStorage(rulesFile, newRules, writeOk)
    /\ subscriptions' = IF writeOk
                        THEN updateMQTTSubscriptions(subscriptions, mqttClient, newRules,
                                                     config.topicPrefix, selfVesselUrn)
                        ELSE subscriptions
    /\ response' = IF writeOk THEN 200 ELSE 500
    /\ last' = <<>>
    /\ UNCHANGED <<lastReceivedMessages, selfVesselUrn, mqttClient, config, clock>>

\* POST /api/rules with an array body (index.js:1229-1250)
PostRules(newRules, writeOk) ==
    /\ importRules' = newRules
    /\ rulesFile' = saveRulesToStorage(rulesFile, newRules, writeOk)
    /\ subscriptions' = IF writeOk
                        THEN updateMQTTSubscriptions(subscriptions, mqttClient, newRules,
                                                     config.topicPrefix, selfVesselUrn)
                        ELSE subscriptions
    /\ response' = IF writeOk THEN 200 ELSE 500
    /\ last' = <<>>
    /\ UNCHANGED <<lastReceivedMessages, selfVesselUrn, mqttClient, config, clock>>

\* Variant of PostNotArray that empties the rule list before it answers
PostNotArrayClearsRules ==
    /\ response' = 400
    /\ importRules' = <<>>
    /\ last' = <<>>
    /\ UNCHANGED <<lastReceivedMessages, selfVesselUrn, mqttClient, config,
                   rulesFile, subscriptions, clock>>

\* POST /api/rules with a body whose rules is not an array (index.js:1232-1234)
PostNotArray ==
    /\ response' = 400
    /\ last' = <<>>
    /\ UNCHANGED <<importRules, lastReceivedMessages, selfVesselUrn, mqttClient, config,
                   rulesFile, subscriptions, clock>>

\* ------------------------------------------------------------------------
\* Inputs of the model
\* ------------------------------------------------------------------------
SelfUrn == UrnMmsiColon \o <<"7">>                  \* urn:mrn:imo:mmsi:7
Transport(n) == UrnMmsiUnderscore \o n               \* urn_mrn_imo_mmsi_<n>
Canonical(n) == UrnMmsiColon \o n                    \* urn:mrn:imo:mmsi:<n>
VesselTopic(token, rest) == W_vessels \o Slash \o token \o Slash \o rest
NavigationPosition == W_navigation \o Slash \o W_position
TopicAB == <<"a", "/", "b">>

\* rule lists posted in the life-cycle specification
ExactAB == Rule("ab", TopicAB, TRUE, "value-only", TRUE, <<>>)
SelfNavigation ==
    Rule("self-nav", VesselsSelfSlash \o W_navigation \o <<"/", "#">>, TRUE, "full", FALSE, <<>>)
PostedRuleLists == {<<ExactAB>>, <<SelfNavigation, ExactAB>>}
LegacyRules == <<SelfNavigation>>

StartOptions ==
    {[topicPrefix |-> <<>>, enabled |-> e, legacy |-> l,
      importRules |-> IF l THEN LegacyRules ELSE <<>>] : e, l \in BOOLEAN}
SelfIds == {Null, SelfUrn}
Topics == {VesselTopic(Transport(<<"7">>), NavigationPosition), TopicAB}
Payloads == {TextDelta, <<"x">>}

MaxReadings == 3      \* Date.now() readings (cache insertions) per run

\* ------------------------------------------------------------------------
\* Life cycle: construction, start/stop, transport events, messages, rule posts
\* ------------------------------------------------------------------------
Init == Constructed

Next ==
    \/ \E o \in StartOptions, id \in SelfIds, w \in BOOLEAN : Start(o, id, w)
    \/ Stop
    \/ Connect
    \/ Close
    \/ clock < MaxReadings /\ \E t \in Topics, m \in Payloads : Message(t, m)
    \/ \E r \in PostedRuleLists, w \in BOOLEAN : PostRules(r, w)
    \/ PostNotArray

Spec == Init /\ [][Next]_vars

\* ------------------------------------------------------------------------
\* Routing: a started, connected plugin with any rule list of the pool,
\* with or without a topic prefix and a resolved self identifier
\* ------------------------------------------------------------------------
SegN == <<"n">>
PlusNav == W_vessels \o <<"/", "+", "/">> \o SegN                \* vessels/+/n
R1 == Rule("r1", PlusNav, TRUE, "full", FALSE, <<"7">>)          \* excludes MMSI 7
R2 == Rule("r2", PlusNav, TRUE, "full", FALSE, <<>>)
R2off == Rule("r2off", PlusNav, FALSE, "full", FALSE, <<>>)
RSelfHash == Rule("selfhash", VesselsSelfSlash \o <<"#">>, TRUE, "full", FALSE, <<>>)
RUnderHash == Rule("underhash", <<"a", "_", "b", "/", "#">>, TRUE, "full", FALSE, <<>>)
RExact8 == Rule("exact8", VesselTopic(Transport(<<"8">>), SegN), TRUE, "full", FALSE, <<>>)
RulePool == {R1, R2, R2off, RSelfHash, RUnderHash, RExact8}

MaxRules == 2         \* longest rule list of the routing specification

RECURSIVE SeqsUpTo(_, _)
SeqsUpTo(S, n) ==
    IF n = 0 THEN {<<>>}
    ELSE SeqsUpTo(S, n - 1) \cup {Append(q, x) : q \in {w \in SeqsUpTo(S, n - 1) : Len(w) = n - 1}, x \in S}

RouteRuleLists == SeqsUpTo(RulePool, MaxRules)
PrefixP == <<"p">>
RouteTopics ==
    LET plain == {VesselTopic(Transport(<<"7">>), SegN), VesselTopic(Transport(<<"8">>), SegN),
                  VesselTopic(Canonical(<<"8">>), SegN), VesselTopic(W_self, SegN),
                  <<"a", ":", "b", "/", "x">>, <<"a", "_", "b", "/", "x">>,
                  <<"x", "/">> \o VesselTopic(<<"u">>, SegN) \o <<"/", "y">>}
    IN  plain \cup {PrefixP \o Slash \o VesselTopic(Transport(<<"7">>), SegN),
                    PrefixP \o Slash \o VesselTopic(Transport(<<"8">>), SegN)}

\* the state after plugin.start found `rules` in the rule file and the client connected
Running(rules, topicPrefix, self) ==
    /\ importRules = rules
    /\ lastReceivedMessages = <<>>
    /\ selfVesselUrn = self
    /\ mqttClient = "connected"
    /\ config = [topicPrefix |-> topicPrefix, enabled |-> TRUE]
    /\ rulesFile = File(rules)
    /\ subscriptions = subscribeToMQTTTopics(rules, topicPrefix, self)
    /\ response = 0
    /\ clock = 0
    /\ last = <<>>

InitRoute ==
    \E rules \in RouteRuleLists, topicPrefix \in {<<>>, PrefixP}, self \in SelfIds :
        Running(rules, topicPrefix, self)

NextRoute == \E t \in RouteTopics : Message(t, <<"1">>)

SpecRoute == InitRoute /\ [][NextRoute]_vars

\* ------------------------------------------------------------------------
\* Properties of the rule scan
\* ------------------------------------------------------------------------
\* rule r is enabled, its prefixed pattern matches the topic and it does not exclude it
Qualifies(r, topic, topicPrefix, self) ==
    /\ r.enabled
    /\ TopicMatches(PrefixedTopic(r.mqttTopic, topicPrefix), topic, self)
    /\ ~isMMSIExcluded(topic, r)

SomeRuleQualifies(topic) ==
    \E i \in 1..Len(importRules) :
        Qualifies(importRules[i], topic, config.topicPrefix, selfVesselUrn)

\* C1: whenever some enabled rule matches the topic of the handled message and
\* does not exclude it, the message is routed to a rule, however many disabled
\* rules are stored before it.
C1_DisabledRulesSkipped ==
    (last # <<>> /\ SomeRuleQualifies(last[1].topic)) => last[1].rule # 0

\* C2: the rule selected for a message is the first rule in stored order that
\* is enabled, matches the topic and does not exclude it, and the message is
\* handed to the sink at most once (no later rule is used for it).
C2_FirstQualifyingRuleWins ==
    (last # <<>> /\ last[1].rule # 0) =>
        /\ last[1].rule \in 1..Len(importRules)
        /\ Qualifies(importRules[last[1].rule], last[1].topic, config.topicPrefix, selfVesselUrn)
        /\ \A j \in 1..(last[1].rule - 1) :
               ~Qualifies(importRules[j], last[1].topic, config.topicPrefix, selfVesselUrn)
        /\ Len(last[1].sent) <= 1

\* a second rule was selected after an enabled first rule that did not qualify
C2_Witness ==
    /\ last # <<>>
    /\ last[1].rule = 2
    /\ importRules[1].enabled
    /\ importRules[1] # importRules[2]

\* the topic is vessels/<identifier>/... and the identifier's sub-identifier is n
HasSubIdentifier(topic, n) ==
    /\ Len(Split(topic, "/")) >= 2
    /\ Split(topic, "/")[1] = W_vessels
    /\ Split(topic, "/")[2] \in {Transport(n), Canonical(n)}

\* the rule list is [R1 excluding 7, R2 with the same pattern and no exclusion]
ExclusionPair ==
    /\ Len(importRules) = 2
    /\ importRules[1].enabled /\ importRules[2].enabled
    /\ importRules[1].mqttTopic = importRules[2].mqttTopic
    /\ parseMMSIExclusionList(importRules[1].excludeMMSI) = << <<"7">> >>
    /\ parseMMSIExclusionList(importRules[2].excludeMMSI) = <<>>

\* C3: with rules [R1 excluding 7, R2 same pattern, no exclusion], a matching
\* topic whose vessel sub-identifier is 7 is routed to R2 and one whose
\* sub-identifier is 8 is routed to R1.
C3_ExclusionContinuesSearch ==
    (/\ last # <<>>
     /\ ExclusionPair
     /\ TopicMatches(PrefixedTopic(importRules[1].mqttTopic, config.topicPrefix),
                     last[1].topic, selfVesselUrn)) =>
        /\ HasSubIdentifier(last[1].topic, <<"7">>) => last[1].rule = 2
        /\ HasSubIdentifier(last[1].topic, <<"8">>) => last[1].rule = 1

C3_Witness ==
    /\ last # <<>>
    /\ ExclusionPair
    /\ HasSubIdentifier(last[1].topic, <<"7">>)
    /\ last[1].rule = 2
    /\ last[1].outcome = "delivered"

\* the vessel token of a topic: the segment after 'vessels', below the
\* configured topic prefix when there is one
VesselToken(topic, topicPrefix) ==
    LET parts == Split(topic, "/")
        below == IF Truthy(topicPrefix) /\ StartsWith(topic, topicPrefix \o Slash)
                 THEN Split(SubSeq(topic, Len(topicPrefix) + 2, Len(topic)), "/")
                 ELSE parts
    IN  IF Len(below) >= 2 /\ below[1] = W_vessels THEN below[2] ELSE Null

\* C4: in every configuration, a message whose topic carries a vessel
\* sub-identifier listed in a rule's exclusion list is never routed through
\* that rule.
C4_ExcludedNeverRouted ==
    (last # <<>> /\ last[1].rule # 0) =>
        \A k \in 1..Len(parseMMSIExclusionList(importRules[last[1].rule].excludeMMSI)) :
            VesselToken(last[1].topic, config.topicPrefix)
                \notin {Transport(parseMMSIExclusionList(importRules[last[1].rule].excludeMMSI)[k]),
                        Canonical(parseMMSIExclusionList(importRules[last[1].rule].excludeMMSI)[k])}

\* ------------------------------------------------------------------------
\* Properties of the topic matcher
\* ------------------------------------------------------------------------
\* vessels/urn_mrn_imo_mmsi_<digits>/navigation/position
IsNavigationPositionTopic(topic) ==
    /\ Len(Split(topic, "/")) = 4
    /\ Split(topic, "/")[1] = W_vessels
    /\ StartsWith(Split(topic, "/")[2], UrnMmsiUnderscore)
    /\ IsDigits(SubSeq(Split(topic, "/")[2], Len(UrnMmsiUnderscore) + 1,
                       Len(Split(topic, "/")[2])))
    /\ Split(topic, "/")[3] = W_navigation
    /\ Split(topic, "/")[4] = W_position

\* C8: with the default rule set installed on first run, a valid Full-format
\* JSON payload on vessels/urn_mrn_imo_mmsi_<digits>/navigation/position is
\* matched by an enabled default rule and delivered to the sink.
C8_DefaultRulesDeliver ==
    (/\ last # <<>>
     /\ importRules = getDefaultImportRules
     /\ IsNavigationPositionTopic(last[1].topic)
     /\ last[1].payload = TextDelta) =>
        /\ last[1].rule # 0
        /\ last[1].outcome = "delivered"
        /\ Len(last[1].sent) = 1

\* the identifier segments of s (those that start with urn_) in canonical form
CanonicalSegment(seg) ==
    IF StartsWith(seg, W_urn \o <<"_">>) THEN ReplaceAllChar(seg, "_", ":") ELSE seg
CanonicalIdentifiers(s) ==
    Join([i \in 1..Len(Split(s, "/")) |-> CanonicalSegment(Split(s, "/")[i])], "/")

\* the encodings in which a pattern is accepted: as written, with transport
\* identifiers canonicalized, with the self placeholder replaced by either
\* encoding of the resolved self identifier
AcceptedEncodings(pattern, self) ==
    {pattern, CanonicalIdentifiers(pattern)}
      \cup (IF Truthy(self) /\ Includes(pattern, VesselsSelfSlash)
            THEN {SubstituteSelf(pattern, self), SubstituteSelf(pattern, urnToMqttFormat(self))}
            ELSE {})

\* segment-wise agreement of a topic with a '+' pattern
SegmentsAgree(pattern, topic) ==
    /\ Len(Split(pattern, "/")) = Len(Split(topic, "/"))
    /\ \A i \in 1..Len(Split(pattern, "/")) :
           IF Split(pattern, "/")[i] = <<"+">>
           THEN Len(Split(topic, "/")[i]) > 0
           ELSE Split(pattern, "/")[i] = Split(topic, "/")[i]

\* the prefixed pattern of the rule selected for the last message
SelectedPattern == PrefixedTopic(importRules[last[1].rule].mqttTopic, config.topicPrefix)

\* C9: a pattern with '+' and no '#' matches a topic only if the topic has as
\* many segments as the pattern, each '+' standing for one non-empty segment
\* and every other segment agreeing in an accepted encoding.
C9_PlusMatchesSegmentwise ==
    (/\ last # <<>>
     /\ last[1].rule # 0
     /\ Includes(SelectedPattern, <<"+">>)
     /\ ~Includes(SelectedPattern, <<"#">>)) =>
        \E enc \in AcceptedEncodings(SelectedPattern, selfVesselUrn) :
            SegmentsAgree(enc, last[1].topic)

\* the rule list is a single enabled rule without exclusions whose final segment is '#'
SingleHashRule ==
    /\ Len(importRules) = 1
    /\ importRules[1].enabled
    /\ parseMMSIExclusionList(importRules[1].excludeMMSI) = <<>>
    /\ Split(importRules[1].mqttTopic, "/")[Len(Split(importRules[1].mqttTopic, "/"))] = <<"#">>

\* the pattern text before the final '#'
TextBeforeHash(pattern) == SubSeq(pattern, 1, Len(pattern) - 1)

\* C10: a pattern whose final segment is '#' matches a topic if and only if
\* the topic is equal to, or extends, the pattern text before '#' in one of
\* the accepted encodings.
C10_HashMatchesPrefixExtension ==
    (last # <<>> /\ SingleHashRule) =>
        (last[1].rule = 1 <=>
            \E enc \in AcceptedEncodings(
                          TextBeforeHash(PrefixedTopic(importRules[1].mqttTopic, config.topicPrefix)),
                          selfVesselUrn) :
                StartsWith(last[1].topic, enc))

\* ------------------------------------------------------------------------
\* Deduplication: one rule matching a/<segment>, messages and rule posts
\* ------------------------------------------------------------------------
APlus == <<"a", "/", "+">>
DedupValue == Rule("dedup-value", APlus, TRUE, "value-only", TRUE, <<>>)
DedupFull == Rule("dedup-full", APlus, TRUE, "full", TRUE, <<>>)
PlainValue == Rule("plain-value", APlus, TRUE, "value-only", FALSE, <<>>)
DedupRuleLists == {<<DedupValue>>, <<DedupFull>>, <<PlainValue>>}
DedupTopics == {TopicAB, <<"a", "/", "c">>}
DedupPayloads == {<<"1">>, <<"2">>, <<"x">>}

InitDedup == \E rules \in DedupRuleLists : Running(rules, <<>>, Null)

NextDedup ==
    \/ clock < MaxReadings /\ \E t \in DedupTopics, m \in DedupPayloads : Message(t, m)
    \/ \E r \in DedupRuleLists : PostRules(r, TRUE)

SpecDedup == InitDedup /\ [][NextDedup]_vars

\* the cache holds an entry for (topic, payload)
Seen(cache, topic, payload) ==
    \E i \in 1..Len(cache) : cache[i].key = topic \o <<":">> \o payload

\* observation o is of a message routed through a rule with ignoreDuplicates
DedupRouted(o) == o.rule # 0 /\ importRules[o.rule].ignoreDuplicates

\* the interpreter accepts the payload of observation o under its rule
Accepted(o) == importRules[o.rule].payloadFormat = "value-only" \/ JSONParse(o.payload).ok

\* a message whose (topic, payload) is not in the cache is delivered
UnseenIsDelivered ==
    (/\ last # <<>>
     /\ DedupRouted(last[1])
     /\ Accepted(last[1])
     /\ ~Seen(last[1].before, last[1].topic, last[1].payload)) =>
        last[1].outcome = "delivered" /\ Len(last[1].sent) = 1

\* once handled, the (topic, payload) of a message is in the cache
HandledIsRecorded ==
    (last # <<>> /\ DedupRouted(last[1])) =>
        Seen(lastReceivedMessages, last[1].topic, last[1].payload)

\* a message whose (topic, payload) is in the cache reaches no sink
SeenIsSuppressed ==
    (/\ last # <<>>
     /\ DedupRouted(last[1])
     /\ Seen(last[1].before, last[1].topic, last[1].payload)) =>
        last[1].outcome = "duplicate" /\ last[1].sent = <<>>

\* C5: through a rule with ignoreDuplicates and with an accepted payload, the
\* first message (topic, payload) is delivered and recorded, so that an
\* immediately repeated identical message produces no sink call, and a message
\* on the same topic with a different, not yet recorded payload is delivered.
C5_DedupSuppressesRepeats == UnseenIsDelivered /\ HandledIsRecorded /\ SeenIsSuppressed

\* a repeated message was suppressed after its first copy was recorded, the
\* same topic having carried another payload as well
C5_Witness ==
    /\ last # <<>>
    /\ DedupRouted(last[1])
    /\ last[1].outcome = "duplicate"
    /\ last[1].sent = <<>>
    /\ Len(last[1].before) = 2
    /\ Seen(last[1].before, last[1].topic, last[1].payload)
    /\ \E q \in DedupPayloads \ {last[1].payload} : Seen(last[1].before, last[1].topic, q)

\* ------------------------------------------------------------------------
\* The cache at its high-water mark: one dedup rule, payloads that are the
\* decimal text of a number; each message carries a payload never sent
\* before, or repeats the newest or the oldest entry of the cache
\* ------------------------------------------------------------------------
RECURSIVE Decimal(_)
Decimal(n) == IF n < 10 THEN <<ToString(n)>> ELSE Append(Decimal(n \div 10), ToString(n % 10))

MaxInserts == 1502    \* insertions per run: the cache overflows at the 1001st and at the 1501st

\* the payload numbers offered: clock counts the insertions, which carried 1..clock
CacheCandidates ==
    {clock + 1} \cup (IF lastReceivedMessages = <<>> THEN {}
                      ELSE {lastReceivedMessages[1].time,
                            lastReceivedMessages[Len(lastReceivedMessages)].time})

InitCache == Running(<<DedupValue>>, <<>>, Null)

NextCache == clock < MaxInserts /\ \E n \in CacheCandidates : Message(TopicAB, Decimal(n))

SpecCache == InitCache /\ [][NextCache]_vars

\* C6: after handleMQTTMessage returns the cache holds at most 1000 entries,
\* and while a message is handled it never holds more than 1001.
C6_CacheBounded ==
    /\ Len(lastReceivedMessages) <= CacheHighWater
    /\ last # <<>> => last[1].peak <= CacheHighWater + 1

\* the cache was full and the insert took it to 1001 entries
C6_Witness ==
    /\ last # <<>>
    /\ Len(last[1].before) = CacheHighWater
    /\ last[1].peak = CacheHighWater + 1

\* the step just taken inserted an entry
Inserted == last # <<>> /\ last[1].peak > Len(last[1].before)

ExactUnder == Rule("exact-under", <<"a", "_", "b">>, TRUE, "full", FALSE, <<>>)
ExactColon8 == Rule("exact-colon8", VesselTopic(Canonical(<<"8">>), SegN), TRUE, "full", FALSE, <<>>)
PlusTransport8 ==
    Rule("plus-transport8", VesselTopic(Transport(<<"8">>), <<"+">>), TRUE, "full", FALSE, <<>>)
SelfExact == Rule("self-exact", VesselsSelfSlash \o SegN, TRUE, "full", FALSE, <<>>)
SelfPlus == Rule("self-plus", VesselsSelfSlash \o <<"+">>, TRUE, "full", FALSE, <<>>)
MatchRules == {ExactUnder, RExact8, ExactColon8, PlusTransport8, SelfExact, SelfPlus, RSelfHash}
MatchTopics ==
    {<<"a", "_", "b">>, <<"a", ":", "b">>,
     VesselTopic(Transport(<<"8">>), SegN), VesselTopic(Canonical(<<"8">>), SegN),
     VesselTopic(Transport(<<"7">>), SegN), VesselTopic(Canonical(<<"7">>), SegN),
     VesselTopic(W_self, SegN),
     VesselTopic(Transport(<<"8">>), VesselsSelfSlash \o SegN)}

InitMatch == \E r \in MatchRules, self \in SelfIds : Running(<<r>>, <<>>, self)

NextMatch == \E t \in MatchTopics : Message(t, <<"1">>)

SpecMatch == InitMatch /\ [][NextMatch]_vars

\* the prefixed pattern of the first rule
FirstPattern == PrefixedTopic(importRules[1].mqttTopic, config.topicPrefix)

\* C11: a pattern without wildcards accepts a topic if and only if the topic
\* is the pattern, the pattern with its transport-form identifiers rewritten
\* to canonical form, or (self placeholder, self resolved) the pattern with
\* the placeholder substituted; an underscore outside an identifier never
\* matches a colon.
C11_ExactMatchesCanonicalOnly ==
    (/\ last # <<>>
     /\ ~Includes(FirstPattern, <<"#">>)
     /\ ~Includes(FirstPattern, <<"+">>)) =>
        (last[1].rule = 1 <=> last[1].topic \in AcceptedEncodings(FirstPattern, selfVesselUrn))

\* s with its canonical identifier segments (urn:...) in transport form
TransportSegment(seg) ==
    IF StartsWith(seg, W_urn \o <<":">>) THEN ReplaceAllChar(seg, ":", "_") ELSE seg
TransportIdentifiers(s) ==
    Join([i \in 1..Len(Split(s, "/")) |-> TransportSegment(Split(s, "/")[i])], "/")

\* s as written and with its identifiers in either encoding
EncodingsOf(s) == {s, CanonicalIdentifiers(s), TransportIdentifiers(s)}

\* C12: the match outcome is the same whichever encoding the identifier of
\* the topic arrives in and whichever encoding the pattern is written in.
C12_EncodingAgnostic ==
    last # <<>> =>
        \A p \in EncodingsOf(FirstPattern), t \in EncodingsOf(last[1].topic) :
            TopicMatches(p, t, selfVesselUrn) <=> last[1].rule = 1

\* the tokens that denote the own vessel
SelfForms == {W_self, selfVesselUrn, urnToMqttFormat(selfVesselUrn)}

IsIdentifier(token) ==
    StartsWith(token, W_urn \o <<"_">>) \/ StartsWith(token, W_urn \o <<":">>)

\* C13: with the self identifier resolved, a pattern with the placeholder
\* 'vessels/self/' matches the topic that carries 'self', the canonical or
\* the transport form of the self identifier in that position, and matches
\* no topic that carries another vessel's identifier there.
C13_SelfPlaceholder ==
    (/\ last # <<>>
     /\ Truthy(selfVesselUrn)
     /\ Includes(FirstPattern, VesselsSelfSlash)) =>
        /\ (\E token \in SelfForms : last[1].topic = VesselTopic(token, SegN)) =>
               last[1].rule = 1
        /\ (/\ Len(Split(last[1].topic, "/")) > 2
            /\ Split(last[1].topic, "/")[1] = W_vessels
            /\ IsIdentifier(Split(last[1].topic, "/")[2])
            /\ Split(last[1].topic, "/")[2] \notin SelfForms) =>
               last[1].rule = 0

\* ------------------------------------------------------------------------
\* Payload interpretation: one rule that matches every topic ('#'), in
\* either payload format, with and without a context or path of its own
\* ------------------------------------------------------------------------
FullAny == Rule("full-any", <<"#">>, TRUE, "full", FALSE, <<>>)
FullWithContext == [FullAny EXCEPT !.id = "full-context", !.signalKContext = <<"k">>]
ValueAny == Rule("value-any", <<"#">>, TRUE, "value-only", FALSE, <<>>)
ValueWithPath == [ValueAny EXCEPT !.id = "value-path", !.signalKPath = <<"q">>]
PayloadRules == {FullAny, FullWithContext, ValueAny, ValueWithPath}
PayloadTopics ==
    {VesselTopic(Transport(<<"7">>), SegN \o <<"/", "q">>), VesselTopic(Canonical(<<"7">>), SegN),
     VesselTopic(Transport(<<"8">>), SegN), VesselTopic(Canonical(<<"8">>), SegN),
     VesselTopic(<<"b", "o", "a", "t">>, SegN), TopicAB,
     PrefixP \o Slash \o VesselTopic(Transport(<<"7">>), SegN),
     PrefixP \o Slash \o VesselTopic(Transport(<<"8">>), SegN)}
PayloadTexts ==
    {TextDelta, TextNull, TextTrue, TextString, TextArray, TextEmptyObject, TextContextOnly,
     TextUpdatesNumber, TextUpdatesEmpty, TextContextEmpty, TextUpdatesOnly,
     <<"1">>, <<"x">>, <<>>}

InitPayload ==
    \E r \in PayloadRules, topicPrefix \in {<<>>, PrefixP}, self \in SelfIds :
        Running(<<r>>, topicPrefix, self)

NextPayload == \E t \in PayloadTopics, m \in PayloadTexts : Message(t, m)

SpecPayload == InitPayload /\ [][NextPayload]_vars

\* C14: every update handed to the sink has a non-empty context and a
\* non-empty updates array.
C14_SinkGetsValidUpdates ==
    last # <<>> =>
        \A i \in 1..Len(last[1].sent) :
            /\ Truthy(last[1].sent[i].context)
            /\ last[1].sent[i].updates.kind = "array"
            /\ Len(last[1].sent[i].updates.items) > 0

\* ------------------------------------------------------------------------
\* Sink calls per message (messages and rule posts of the deduplication
\* specification)
\* ------------------------------------------------------------------------
\* observation o is of a message that the dedup cache suppresses
Suppressed(o) == DedupRouted(o) /\ Seen(o.before, o.topic, o.payload)

\* C15: a message causes at most one call to the sink, and exactly one when
\* a rule matches, the cache does not suppress the message and the payload is
\* interpreted into an update; every call carries the plugin's own id.
C15_OneSinkCallPerMessage ==
    last # <<>> =>
        /\ Len(last[1].sent) <= 1
        /\ (last[1].rule # 0 /\ ~Suppressed(last[1]) /\ Accepted(last[1])) =>
               Len(last[1].sent) = 1
        /\ \A i \in 1..Len(last[1].sent) : last[1].sent[i].id = PluginId

\* a message that the cache had not seen, handled after others were recorded,
\* reached the sink once under the plugin's id
C15_Witness ==
    /\ last # <<>>
    /\ DedupRouted(last[1])
    /\ Len(last[1].before) > 0
    /\ ~Suppressed(last[1])
    /\ Len(last[1].sent) = 1
    /\ last[1].sent[1].id = PluginId

\* ------------------------------------------------------------------------
\* Properties of payload interpretation
\* ------------------------------------------------------------------------
\* the rule through which the last message was routed
SelectedRule == importRules[last[1].rule]

\* C16: under a rule with Full payload format a payload that is not valid
\* JSON is dropped: the sink is not called, and the handler returns with the
\* client still connected and able to take the next message.
C16_MalformedFullDropped ==
    (/\ last # <<>>
     /\ last[1].rule # 0
     /\ SelectedRule.payloadFormat = "full"
     /\ ~JSONParse(last[1].payload).ok) =>
        /\ last[1].outcome = "unparsed"
        /\ last[1].sent = <<>>
        /\ mqttClient = "connected"
        /\ ENABLED Message(TopicAB, <<"1">>)

\* the text x arrived under a Full-format rule and nothing was delivered
C16_Witness ==
    /\ last # <<>>
    /\ last[1].rule # 0
    /\ SelectedRule.payloadFormat = "full"
    /\ last[1].payload = <<"x">>
    /\ last[1].outcome = "unparsed"
    /\ last[1].sent = <<>>

\* the single {path, value} entry of the single update of the delta sent last
SentEntry == last[1].sent[1].updates.items[1].values[1]

\* C17: under a rule with ValueOnly payload format every payload text yields
\* a value: the message results in exactly one delivered update with exactly
\* one {path, value} entry, the value being the parsed JSON, the number, or
\* the raw text.
C17_ValueOnlyAlwaysDelivers ==
    (/\ last # <<>>
     /\ last[1].rule # 0
     /\ SelectedRule.payloadFormat = "value-only") =>
        /\ last[1].outcome = "delivered"
        /\ Len(last[1].sent) = 1
        /\ last[1].sent[1].updates.kind = "array"
        /\ Len(last[1].sent[1].updates.items) = 1
        /\ Len(last[1].sent[1].updates.items[1].values) = 1
        /\ last[1].payload = <<"x">> => SentEntry.value = JString(<<"x">>)
        /\ last[1].payload = <<"1">> => SentEntry.value = JNumber(1)
        /\ last[1].payload = TextNull => SentEntry.value = JNull
        /\ last[1].payload = TextDelta => SentEntry.value = ValueDelta

\* the text x arrived under a ValueOnly rule and was delivered as the string x
C17_Witness ==
    /\ last # <<>>
    /\ last[1].rule # 0
    /\ SelectedRule.payloadFormat = "value-only"
    /\ last[1].payload = <<"x">>
    /\ last[1].outcome = "delivered"
    /\ Len(last[1].sent) = 1
    /\ SentEntry.value = JString(<<"x">>)

\* the JSON value of the payload handled last
ParsedPayload == JSONParse(last[1].payload).value

\* C18: under a Full-format rule a payload whose JSON has a context field and
\* an updates array is handed to the sink unchanged: the delivered context
\* and updates are those of the payload, nothing of the rule or the topic is
\* injected.
C18_FullDeltaPassesThrough ==
    (/\ last # <<>>
     /\ last[1].rule # 0
     /\ SelectedRule.payloadFormat = "full"
     /\ JSONParse(last[1].payload).ok
     /\ ParsedPayload.t = "object"
     /\ ParsedPayload.context # Null
     /\ ParsedPayload.updates.kind = "array") =>
        last[1].sent = <<[id |-> PluginId, context |-> ParsedPayload.context,
                          updates |-> ParsedPayload.updates]>>

\* C19: under a Full-format rule every payload that is valid JSON and does
\* not have both a context field and an updates array is wrapped as a
\* single-value update whose value is the parsed JSON and whose context is
\* the rule's if non-empty, else the parsed object's own, else the one
\* derived from the topic; the update is delivered.
C19_FullOpaqueValueWrapped ==
    (/\ last # <<>>
     /\ last[1].rule # 0
     /\ SelectedRule.payloadFormat = "full"
     /\ JSONParse(last[1].payload).ok
     /\ ~(ParsedPayload.context # Null /\ ParsedPayload.updates.kind = "array")) =>
        /\ last[1].outcome = "delivered"
        /\ Len(last[1].sent) = 1
        /\ last[1].sent[1].context
             = OrElse(SelectedRule.signalKContext,
                      OrElse(ParsedPayload.context,
                             extractContextFromTopic(last[1].topic, config.topicPrefix,
                                                     selfVesselUrn)))
        /\ Len(last[1].sent[1].updates.items) = 1
        /\ Len(last[1].sent[1].updates.items[1].values) = 1
        /\ SentEntry.value = ParsedPayload

\* ------------------------------------------------------------------------
\* Properties of context and path derivation, observed in the update that a
\* ValueOnly rule without a context of its own delivers
\* ------------------------------------------------------------------------
\* the segments of the last topic below the configured prefix
CleanSegments ==
    IF Truthy(config.topicPrefix) /\ StartsWith(last[1].topic, config.topicPrefix \o Slash)
    THEN Split(SubSeq(last[1].topic, Len(config.topicPrefix) + 2, Len(last[1].topic)), "/")
    ELSE Split(last[1].topic, "/")

\* the last message came through a rule that leaves the context to the
\* topic, on a topic vessels/<token>/<rest...>
DerivedFromVesselTopic ==
    /\ last # <<>>
    /\ last[1].rule # 0
    /\ SelectedRule.payloadFormat = "value-only"
    /\ ~Truthy(SelectedRule.signalKContext)
    /\ Len(CleanSegments) > 2
    /\ CleanSegments[1] = W_vessels

\* C20: for a topic vessels/<token>/<rest...> the context is 'vessels.self'
\* when <token> is the self identifier in canonical or transport form,
\* otherwise 'vessels.' followed by the canonical form of a transport-form
\* token or by the token as it is; the path is the segments from the third
\* onward joined with '.'; another vessel's identifier is never mapped to
\* 'vessels.self'.
C20_ContextAndPathDerivation ==
    DerivedFromVesselTopic =>
        /\ Len(last[1].sent) = 1
        /\ last[1].sent[1].context
             = (IF Truthy(selfVesselUrn)
                    /\ CleanSegments[2] \in {selfVesselUrn, ReplaceAllChar(selfVesselUrn, ":", "_")}
                THEN W_vessels \o <<".">> \o W_self
                ELSE IF StartsWith(CleanSegments[2], W_urn \o <<"_">>)
                     THEN W_vessels \o <<".">> \o ReplaceAllChar(CleanSegments[2], "_", ":")
                ELSE W_vessels \o <<".">> \o CleanSegments[2])
        /\ ~Truthy(SelectedRule.signalKPath) =>
               SentEntry.path = Join(SubSeq(CleanSegments, 3, Len(CleanSegments)), ".")
        /\ (IsIdentifier(CleanSegments[2])
               /\ CanonicalSegment(CleanSegments[2]) # CanonicalSegment(selfVesselUrn)) =>
               last[1].sent[1].context # W_vessels \o <<".">> \o W_self

\* the own vessel's transport-form topic was delivered as vessels.self with path n.q
C20_Witness ==
    /\ DerivedFromVesselTopic
    /\ selfVesselUrn = Canonical(<<"7">>)
    /\ last[1].topic = VesselTopic(Transport(<<"7">>), SegN \o <<"/", "q">>)
    /\ Len(last[1].sent) = 1
    /\ last[1].sent[1].context = W_vessels \o <<".">> \o W_self
    /\ SentEntry.path = <<"n", ".", "q">>

\* ------------------------------------------------------------------------
\* The unresolved self identifier (matcher specification)
\* ------------------------------------------------------------------------
\* the vessel token of the last topic is an identifier
LastTokenIsIdentifier ==
    /\ Len(Split(last[1].topic, "/")) > 2
    /\ Split(last[1].topic, "/")[1] = W_vessels
    /\ IsIdentifier(Split(last[1].topic, "/")[2])

\* C21: with the self identifier unresolved every self test is false and
\* nothing fails: messages are matched and handled, a pattern with the
\* placeholder is subscribed as written and matches only topics that carry
\* the placeholder text itself, and no identifier is mapped to vessels.self.
C21_UnresolvedSelfNeverMatches ==
    selfVesselUrn = Null =>
        /\ Includes(FirstPattern, VesselsSelfSlash) => subscriptions = {FirstPattern}
        /\ last # <<>> =>
              /\ last[1].outcome \in {"delivered", "nomatch"}
              /\ (Includes(FirstPattern, VesselsSelfSlash) /\ last[1].rule # 0) =>
                     Includes(last[1].topic, VesselsSelfSlash)
              /\ (LastTokenIsIdentifier /\ last[1].rule # 0) =>
                     /\ Len(last[1].sent) = 1
                     /\ last[1].sent[1].context # W_vessels \o <<".">> \o W_self

\* with the self identifier unresolved, the placeholder pattern vessels/self/#
\* took the topic vessels/self/n
C21_Witness ==
    /\ selfVesselUrn = Null
    /\ importRules = <<RSelfHash>>
    /\ subscriptions = {VesselsSelfSlash \o <<"#">>}
    /\ last # <<>>
    /\ last[1].topic = VesselTopic(W_self, SegN)
    /\ last[1].rule = 1
    /\ last[1].outcome = "delivered"

\* ------------------------------------------------------------------------
\* Rule management and the life cycle (life-cycle specification)
\* ------------------------------------------------------------------------
\* the plugin has been started and stopped: plugin.start is the only writer of
\* the self identifier, plugin.stop the only one that drops the client
Stopped == mqttClient = "null" /\ selfVesselUrn # Null

\* C22: rules saved through POST /api/rules survive a restart: when the last
\* post succeeded and the stopped plugin is started, with whatever options,
\* the rule list in memory is the list last saved.
C22_SavedRulesSurviveRestart ==
    [][(Stopped /\ response = 200 /\ mqttClient' # "null")
          => importRules' = rulesFile.rules]_vars

\* C23: started with options.enabled = false the plugin creates no client
\* and subscribes nothing.
C23_DisabledStartsNothing ==
    [][(\E o \in StartOptions, id \in SelfIds, w \in BOOLEAN : ~o.enabled /\ Start(o, id, w))
          => (mqttClient' = "null" /\ subscriptions' = {})]_vars

\* C24: after a POST /api/rules that saved a list while the client is
\* connected, the subscribed filters are exactly the subscription topics of
\* the new list.
C24_PostResubscribesExactly ==
    [][\A r \in PostedRuleLists :
          (mqttClient = "connected" /\ PostRules(r, TRUE))
             => subscriptions' = subscribeToMQTTTopics(r, config.topicPrefix, selfVesselUrn)]_vars

\* C25: on every connect the subscription topics of the rule list then in
\* memory are subscribed.
C25_ConnectSubscribesCurrentRules ==
    [][(mqttClient = "offline" /\ mqttClient' = "connected")
          => /\ importRules' = importRules
             /\ subscribeToMQTTTopics(importRules, config.topicPrefix, selfVesselUrn)
                   \subseteq subscriptions']_vars

\* a list was posted while the client was offline (no save ever succeeded, so
\* the list in memory comes from a post after the start) and the connect that
\* followed subscribed its topic and nothing else
C25_Witness ==
    /\ mqttClient = "connected"
    /\ rulesFile = NoFile
    /\ response = 500
    /\ importRules = <<ExactAB>>
    /\ subscriptions = {TopicAB}

\* C26: a POST /api/rules whose save fails answers 500, leaves the rules file
\* as it was and makes the posted list the list in memory.
C26_FailedSaveKeepsNewRules ==
    [][\A r \in PostedRuleLists :
          PostRules(r, FALSE)
             => (response' = 500 /\ importRules' = r /\ rulesFile' = rulesFile)]_vars

\* after a post whose save failed (the file holds another list) a message
\* was taken by the second rule of the posted list
C26_Witness ==
    /\ response = 500
    /\ importRules = <<SelfNavigation, ExactAB>>
    /\ rulesFile.rules # importRules
    /\ last # <<>>
    /\ last[1].topic = TopicAB
    /\ last[1].rule = 2
    /\ last[1].outcome = "delivered"

\* C27: a POST /api/rules whose rules is not an array answers 400 and changes
\* neither the rule list, the rules file, the subscriptions nor the dedup
\* cache.
C27_NotArrayRejected ==
    [][PostNotArray
          => (response' = 400
              /\ UNCHANGED <<importRules, rulesFile, subscriptions, lastReceivedMessages>>)]_vars

\* a rejected post at a connected plugin with rules, subscriptions and a
\* remembered message
C27_Witness ==
    /\ response = 400
    /\ mqttClient = "connected"
    /\ importRules # <<>>
    /\ subscriptions # {}
    /\ lastReceivedMessages # <<>>
    /\ last = <<>>

\* the rule number the scan of a list gives a topic, 0 for none
ScanOf(rules, topic) ==
    IF FindRule(rules, topic, config.topicPrefix, selfVesselUrn).kind = "rule"
    THEN FindRule(rules, topic, config.topicPrefix, selfVesselUrn).idx
    ELSE 0

OtherUrn == W_urn \o <<"_", "x", "_", "9">>                      \* urn_x_9
ROther == Rule("other", VesselTopic(OtherUrn, SegN), TRUE, "full", FALSE, <<>>)
SubscribePool == {RSelfHash, RExact8, R2, R2off, ExactAB, ROther}
SubscribeRuleLists == SeqsUpTo(SubscribePool, MaxRules)

\* the state after plugin.start found `rules` in the rule file, the client
\* created and not yet connected
Started(rules, topicPrefix, self) ==
    /\ importRules = rules
    /\ lastReceivedMessages = <<>>
    /\ selfVesselUrn = self
    /\ mqttClient = "offline"
    /\ config = [topicPrefix |-> topicPrefix, enabled |-> TRUE]
    /\ rulesFile = File(rules)
    /\ subscriptions = {}
    /\ response = 0
    /\ clock = 0
    /\ last = <<>>

InitSubscribe ==
    \E rules \in SubscribeRuleLists, prefix \in {<<>>, PrefixP}, self \in SelfIds :
        Started(rules, prefix, self)

NextSubscribe == Connect \/ Close

SpecSubscribe == InitSubscribe /\ [][NextSubscribe]_vars

\* the topics one prefixed pattern is to be subscribed under
PatternTopics(pattern, self) ==
    IF Includes(pattern, VesselsSelfSlash) /\ Truthy(self)
    THEN {SubstituteSelf(pattern, self), SubstituteSelf(pattern, urnToMqttFormat(self))}
    ELSE {pattern, CanonicalIdentifiers(pattern)}

\* C29: the subscribed topics are, for each enabled rule's prefixed pattern:
\* with the self placeholder and the self identifier resolved, the pattern
\* with the canonical and with the transport form of the identifier in its
\* place; otherwise the pattern as written and the pattern with its
\* transport-form identifiers in canonical form. Disabled rules give none.
C29_SubscriptionTopics ==
    mqttClient = "connected" =>
        subscriptions =
            UNION {PatternTopics(PrefixedTopic(importRules[i].mqttTopic, config.topicPrefix),
                                 selfVesselUrn) :
                     i \in {j \in 1..Len(importRules) : importRules[j].enabled}}

\* ------------------------------------------------------------------------
\* Faults: rule lists with a rule that has no mqttTopic, payloads that do not
\* parse or do not validate, and a sink that may throw
\* ------------------------------------------------------------------------
RBroken == Rule("broken", Null, TRUE, "full", FALSE, <<>>)
FaultRuleLists ==
    {<<>>, <<RBroken>>, <<RBroken, FullAny>>, <<FullAny, RBroken>>, <<ValueAny>>,
     <<DedupFull>>, <<R2off, FullAny>>}
FaultTopics == {TopicAB, VesselTopic(Transport(<<"7">>), SegN)}
FaultPayloads == {<<"1">>, TextNull, TextUpdatesNumber, TextDelta}

InitFault == \E rules \in FaultRuleLists, self \in SelfIds : Running(rules, <<>>, self)

NextFault ==
    \/ clock < MaxReadings /\ \E t \in FaultTopics, m \in FaultPayloads : Message(t, m)
    \/ clock < MaxReadings /\ \E t \in FaultTopics, m \in FaultPayloads : MessageSinkThrows(t, m)

SpecFault == InitFault /\ [][NextFault]_vars

\* the ways handleMQTTMessage returns
Returns ==
    {"aborted", "nomatch", "duplicate", "unparsed", "invalid", "delivered", "error", "sinkerror"}

\* C30: whatever the rule list, the payload and the behaviour of the sink,
\* handleMQTTMessage returns (an exception of the scan, of the parser or of
\* the sink is caught) and the client stays connected, so that the next
\* message is handled.
C30_NothingIsFatal ==
    last # <<>> =>
        /\ last[1].outcome \in Returns
        /\ last[1].outcome = "error" => last[1].sent = <<>>
        /\ last[1].outcome = "sinkerror" => Len(last[1].sent) = 1
        /\ mqttClient = "connected"

\* the sink threw on the call for a message that was handled after a
\* message whose payload made the parser throw (null under a full-format
\* rule, remembered by the dedup cache)
C30_Witness ==
    /\ last # <<>>
    /\ last[1].outcome = "sinkerror"
    /\ Len(last[1].sent) = 1
    /\ CacheHas(last[1].before, MessageKey(TopicAB, TextNull))

\* ------------------------------------------------------------------------
\* Identifier codec: a connected plugin with one value-only rule for every
\* topic receives the topics of identified vessels in transport form
\* ------------------------------------------------------------------------
\* identifiers of the shape urn:<namespace-path>:<numeric-id>
IdNamespaces ==
    {<<W_mrn, W_imo, W_mmsi>>, <<W_mrn, W_imo>>, <<W_mrn>>, <<<<"a", "-", "b">>, <<"x">>>>}
IdNumbers == {<<"7">>, <<"8">>, <<"4", "2">>}
CanonicalIds ==
    {Join(<<W_urn>> \o ns \o <<n>>, ":") : ns \in IdNamespaces, n \in IdNumbers}

InitCodec == \E self \in CanonicalIds \cup {Null} : Running(<<ValueAny>>, <<>>, self)

NextCodec == \E i \in CanonicalIds : Message(VesselTopic(urnToMqttFormat(i), SegN), <<"1">>)

SpecCodec == InitCodec /\ [][NextCodec]_vars

\* C31: the codec round-trips on canonical identifiers: the transport form
\* of an identifier decodes to the identifier, for the self identifier and
\* for the vessel token of a topic, whose delivered context names the
\* identifier the token was encoded from (or the own vessel when it is that).
C31_CodecRoundTrips ==
    /\ Truthy(selfVesselUrn) =>
          mqttFormatToUrn(urnToMqttFormat(selfVesselUrn)) = selfVesselUrn
    /\ last # <<>> =>
          \A i \in CanonicalIds :
              last[1].topic = VesselTopic(urnToMqttFormat(i), SegN) =>
                  /\ mqttFormatToUrn(Split(last[1].topic, "/")[2]) = i
                  /\ Len(last[1].sent) = 1
                  /\ last[1].sent[1].context =
                        (IF i = selfVesselUrn THEN VesselsDotSelf ELSE VesselsDot \o i)

\* the topic of vessel urn_a-b_x_42 was delivered under vessels.urn:a-b:x:42
\* while the own vessel is another one
C31_Witness ==
    /\ selfVesselUrn = SelfUrn
    /\ last # <<>>
    /\ last[1].topic = VesselTopic(<<"u", "r", "n", "_", "a", "-", "b", "_", "x", "_", "4", "2">>, SegN)
    /\ Len(last[1].sent) = 1
    /\ last[1].sent[1].context =
          VesselsDot \o <<"u", "r", "n", ":", "a", "-", "b", ":", "x", ":", "4", "2">>

\* ------------------------------------------------------------------------
\* Frame of message handling (life-cycle specification)
\* ------------------------------------------------------------------------
\* no enabled rule of the list in memory has a pattern that the topic matches
NoEnabledRuleMatches(topic) ==
    \A i \in 1..Len(importRules) :
        ~(/\ importRules[i].enabled
          /\ TopicMatches(PrefixedTopic(importRules[i].mqttTopic, config.topicPrefix),
                          topic, selfVesselUrn))

\* C32: a message that no enabled rule matches is dropped without effect:
\* nothing is sent to the sink and the dedup cache, the rule list and the
\* subscriptions are as before.
C32_UnmatchedDropped ==
    [][(last' # <<>> /\ NoEnabledRuleMatches(last'[1].topic))
          => /\ last'[1].sent = <<>>
             /\ UNCHANGED <<lastReceivedMessages, importRules, subscriptions>>]_vars

\* an unmatched message arrived while the dedup cache held an earlier message
C32_Witness ==
    /\ last # <<>>
    /\ importRules # <<>>
    /\ NoEnabledRuleMatches(last[1].topic)
    /\ last[1].outcome = "nomatch"
    /\ last[1].before # <<>>
    /\ lastReceivedMessages = last[1].before

\* ------------------------------------------------------------------------
\* The context of a rule (payload specification)
\* ------------------------------------------------------------------------
\* C33: a rule's non-empty signalKContext is the context of every update
\* delivered for a message the rule takes, in both payload formats.
C33_RuleContextOverrides ==
    (/\ last # <<>>
     /\ last[1].rule # 0
     /\ Truthy(importRules[last[1].rule].signalKContext)) =>
        \A k \in 1..Len(last[1].sent) :
            last[1].sent[k].context = importRules[last[1].rule].signalKContext

\* ------------------------------------------------------------------------
\* The dedup cache and dropped messages (fault specification)
\* ------------------------------------------------------------------------
\* C34: a message that ends up dropped (the payload is not interpreted, the
\* update is invalid, or the sink call fails) leaves the dedup cache as it
\* was before the message.
C34_DroppedLeavesCache ==
    (last # <<>> /\ last[1].outcome \in {"unparsed", "invalid", "sinkerror"}) =>
        lastReceivedMessages = last[1].before

\* ------------------------------------------------------------------------
\* The dedup cache as message handling leaves it (dedup specification)
\* ------------------------------------------------------------------------
\* C35: a message taken by a rule with ignoreDuplicates = false is never
\* suppressed and leaves the dedup cache as it was, whether or not the cache
\* holds the message's key.
C35_NoDedupLeavesCache ==
    (/\ last # <<>>
     /\ last[1].rule # 0
     /\ ~importRules[last[1].rule].ignoreDuplicates) =>
        /\ last[1].outcome # "duplicate"
        /\ lastReceivedMessages = last[1].before

\* a rule without ignoreDuplicates delivered a message whose key the cache
\* holds from the time of a rule list that had it
C35_Witness ==
    /\ last # <<>>
    /\ importRules = <<PlainValue>>
    /\ last[1].rule = 1
    /\ Seen(last[1].before, last[1].topic, last[1].payload)
    /\ last[1].outcome = "delivered"
    /\ lastReceivedMessages = last[1].before

\* C36: suppressing a duplicate leaves the dedup cache unchanged: every
\* entry, that of the repeated key included, keeps its time and its place in
\* the insertion order.
C36_SuppressionLeavesCache ==
    (last # <<>> /\ last[1].outcome = "duplicate") =>
        /\ lastReceivedMessages = last[1].before
        /\ last[1].sent = <<>>

\* a message was suppressed whose entry is the oldest of several and still
\* carries the time of the first insertion
C36_Witness ==
    /\ last # <<>>
    /\ last[1].outcome = "duplicate"
    /\ Len(lastReceivedMessages) > 1
    /\ lastReceivedMessages[1] = [key |-> MessageKey(last[1].topic, last[1].payload), time |-> 1]

\* ------------------------------------------------------------------------
\* Dedup keys: a connected plugin whose one rule takes every topic and
\* ignores duplicates; topics and payloads that hold the key's separator
\* ------------------------------------------------------------------------
DedupAny == Rule("dedup-any", <<"#">>, TRUE, "value-only", TRUE, <<>>)
KeyTopics == {<<"a">>, <<"a", ":", "b">>, TopicAB}
KeyPayloads == {<<"b", ":", "c">>, <<"c">>, <<"1">>}

InitKeys == \E self \in SelfIds : Running(<<DedupAny>>, <<>>, self)

NextKeys == clock < MaxReadings /\ \E t \in KeyTopics, m \in KeyPayloads : Message(t, m)

SpecKeys == InitKeys /\ [][NextKeys]_vars

\* the (topic, payload) pairs the cache makes a duplicate
SeenPairs ==
    {pair \in KeyTopics \X KeyPayloads : Seen(lastReceivedMessages, pair[1], pair[2])}

\* C37: dedup keys are injective over (topic, payload): every entry of the
\* cache stands for one pair, so the pairs that would be suppressed are as
\* many as the entries (a message is a duplicate only of a message with the
\* same topic and the same payload).
C37_KeysInjective == Cardinality(SeenPairs) = Len(lastReceivedMessages)

\* ------------------------------------------------------------------------
\* Repeats that are not immediate (dedup specification)
\* ------------------------------------------------------------------------
\* the places of the cache entries of a topic
EntriesOf(cache, topic) == {i \in 1..Len(cache) : StartsWith(cache[i].key, topic \o <<":">>)}

\* the key of the payload last accepted on a topic (the topic has entries)
LatestKeyOf(cache, topic) ==
    cache[CHOOSE i \in EntriesOf(cache, topic) : \A j \in EntriesOf(cache, topic) : j <= i].key

C39_CacheWriters ==
    [][/\ lastReceivedMessages' # lastReceivedMessages
            => (last' # <<>> \/ (mqttClient # "null" /\ mqttClient' = "null"))
       /\ (mqttClient # "null" /\ mqttClient' = "null") => lastReceivedMessages' = <<>>
       /\ ((\E r \in PostedRuleLists, w \in BOOLEAN : PostRules(r, w))
              \/ PostNotArray \/ Connect \/ Close)
            => lastReceivedMessages' = lastReceivedMessages]_vars

\* the cache still holds the message a/b:x after the post of a rule list
\* was saved, the client being connected
C39_Witness ==
    /\ lastReceivedMessages # <<>>
    /\ last = <<>>
    /\ response = 200
    /\ mqttClient = "connected"
    /\ importRules = <<SelfNavigation, ExactAB>>
    /\ rulesFile = File(importRules)
    /\ lastReceivedMessages[1].key = MessageKey(TopicAB, <<"x">>)

\* ------------------------------------------------------------------------
\* Exclusion: a connected plugin whose first rule takes vessels/+/n and
\* excludes some MMSIs; vessel tokens that are identifiers in either
\* encoding and tokens that are not
\* ------------------------------------------------------------------------
Excluding(list) == Rule("excluding", PlusNav, TRUE, "full", FALSE, list)
ExcludeRuleLists ==
    {<<Excluding(list)>> \o rest :
        list \in {<<"7">>, <<"8">>, <<"7", ",", " ", "8">>}, rest \in {<<>>, <<R2>>}}
ExcludeTokens ==
    {Transport(<<"7">>), Canonical(<<"7">>), Transport(<<"8">>), Canonical(<<"8">>),
     Transport(<<"7", "x">>), <<"x">> \o Transport(<<"7">>), UrnMmsiUnderscore, W_self, <<"u">>}

InitExclude == \E rules \in ExcludeRuleLists, self \in SelfIds : Running(rules, <<>>, self)

NextExclude == \E token \in ExcludeTokens : Message(VesselTopic(token, SegN), <<"1">>)

SpecExclude == InitExclude /\ [][NextExclude]_vars

\* the token is urn_mrn_imo_mmsi_<n> or urn:mrn:imo:mmsi:<n> for a number n
IsMmsiIdentifier(token) ==
    \E head \in {UrnMmsiUnderscore, UrnMmsiColon} :
        /\ StartsWith(token, head)
        /\ Len(token) > Len(head)
        /\ \A k \in (Len(head) + 1)..Len(token) : token[k] \in Digits

\* C40: exclusion does not depend on the encoding: the first rule excludes
\* the topic of urn_mrn_imo_mmsi_<n> if and only if it excludes that of
\* urn:mrn:imo:mmsi:<n>; and a topic whose vessel token is not such an
\* identifier is not excluded, so the first rule takes it.
C40_ExclusionEncodingAgnostic ==
    last # <<>> =>
        /\ \A n \in {<<"7">>, <<"8">>} :
              isMMSIExcluded(VesselTopic(Transport(n), SegN), importRules[1])
                = isMMSIExcluded(VesselTopic(Canonical(n), SegN), importRules[1])
        /\ ~IsMmsiIdentifier(Split(last[1].topic, "/")[2]) =>
              /\ ~isMMSIExcluded(last[1].topic, importRules[1])
              /\ last[1].rule = 1
====
